---- MODULE Spec2Model ----
(***************************************************************************)
(* Model of package log/handler (src/log/handler/rotating.go): the two     *)
(* rotating log-file writers, RotatingFile (rotation by size) and          *)
(* TimedRotatingFile (rotation by day), called by a few goroutines over a  *)
(* small POSIX-like file system.                                           *)
(*                                                                         *)
(* One behaviour constructs one writer (kind = "size" or "timed") and then *)
(* lets the goroutines call its methods.  A method is a sequence of steps; *)
(* pc[g] is the position of goroutine g inside the method it is running.   *)
(* The mutex embedded in each struct is the variable lock.                 *)
(*                                                                         *)
(* The environment is the variable disk.  On a "sound" disk every          *)
(* file-system call (open, close of an open file, remove of an existing    *)
(* file, rename, stat, directory listing) succeeds and no other process    *)
(* touches the directory.  On a "failing" disk each such call made by a    *)
(* rotation may fail, and another process may remove the active file.      *)
(* Writes to an open file always succeed.  The local time zone has a fixed *)
(* UTC offset of 0.                                                        *)
(***************************************************************************)
EXTENDS Integers, Sequences, FiniteSets, TLC

VARIABLES
    kind,         \* "size" (RotatingFile) or "timed" (TimedRotatingFile)
    fs,           \* the file system: directory, inodes, inode counter
    w,            \* field w: the open file of the writer, or Nil
    maxSize,      \* RotatingFile.maxSize
    nbytes,       \* RotatingFile.nbytes
    backupCount,  \* field backupCount of either struct
    interval,     \* TimedRotatingFile.interval (seconds)
    rotatorAt,    \* TimedRotatingFile.rotatorAt (unix seconds)
    now,          \* the wall clock, time.Now().Unix()
    lock,         \* the embedded sync.Mutex: 0 when free, else the holder
    pc,           \* pc[g]: where goroutine g is
    arg,          \* arg[g]: the argument of the call g is running
    held,         \* held[g]: the value of r.w that g loaded in WriteString
    disk,         \* "sound" or "failing": whether file-system calls may fail
    crashed,      \* an unrecovered panic has ended the process
    hist          \* history of the run (not program state), see HistInit

vars == <<kind, fs, w, maxSize, nbytes, backupCount, interval, rotatorAt, now,
          lock, pc, arg, held, disk, crashed, hist>>

-----------------------------------------------------------------------------
(* Bounds of the model *)

\* number of goroutines calling the writer
NumGoroutines == 2
\* total number of Write calls in one behaviour
MaxWrites == 4
\* longest byte slice handed to one Write
MaxLen == 2
\* largest maxSize a RotatingFile is constructed with (the least is 1)
MaxMaxSize == 2
\* largest backupCount a writer is given
MaxBackupCount == 2
\* longest content of a file that exists before the writer is constructed
MaxPreLen == 1
\* largest number of days handed to SetInterval
MaxIntervalDays == 2
\* total number of Write calls on a TimedRotatingFile in one behaviour
MaxTimedWrites == 2
\* longest byte slice handed to one Write of a TimedRotatingFile
MaxTimedLen == 1
\* largest number handed to SetBackupCount
MaxTimedBackupCount == 1
\* longest string of one RotatingFile.WriteString call (the shortest is 1)
MaxStringLen == 1
\* the clock stops advancing after this many days
MaxDays == 3

Goroutines == 1..NumGoroutines

-----------------------------------------------------------------------------
(* Bytes and file names *)

\* The content of the n-th Write call, of length len: every byte of a run is
\* distinct, so a lost, duplicated or torn write shows in the file contents.
Payload(n, len) == [j \in 1..len |-> <<n, j>>]

\* Content of the file found at the target path before construction.
PreContent(len) == [j \in 1..len |-> <<0, j>>]

\* File names of the target directory, as triples of integers:
\*   <<0,0,0>>  the active file, r.filename / t.filename
\*   <<1,i,0>>  r.filename + "." + i
\*   <<2,d,0>>  t.filename + "." + the date of day d
Target == <<0, 0, 0>>
Numbered(i) == <<1, i, 0>>
Dated(d) == <<2, d, 0>>
\*   <<2,d,1>>  t.filename + "." + the date of day d + ".gz"
\*   <<3,0,0>>  a file of the directory whose name has another form
DatedExt(d) == <<2, d, 1>>
Other == <<3, 0, 0>>

-----------------------------------------------------------------------------
(* The file system.  F.dir maps the names that exist to inode numbers and   *)
(* F.data maps each live inode to its content.  An open file refers to an   *)
(* inode, not to a name, as a descriptor does.                              *)

EmptyFS == [dir |-> [p \in {} |-> 0], data |-> [i \in {} |-> <<>>]]

\* file.IsExist(path)
IsExist(F, p) == p \in DOMAIN F.dir

\* file.IsFile(path): the model's directory holds regular files only
IsFile(F, p) == p \in DOMAIN F.dir

\* the content of the file named p
Content(F, p) == F.data[F.dir[p]]

\* os.Remove(path) of an existing name
Remove(F, p) ==
    [F EXCEPT !.dir = [q \in (DOMAIN F.dir) \ {p} |-> F.dir[q]]]

\* os.Rename(src, dst), dst absent or replaced
Rename(F, s, d) ==
    [F EXCEPT !.dir = [q \in ((DOMAIN F.dir) \ {s}) \cup {d} |->
                          IF q = d THEN F.dir[s] ELSE F.dir[q]]]

\* an inode number not in use
FreshInode(F) == CHOOSE i \in 1..(Cardinality(DOMAIN F.data) + 1) : i \notin DOMAIN F.data

\* os.OpenFile(path, O_APPEND|O_CREATE|O_WRONLY, perm): the file is created
\* empty when the name does not exist, and is never truncated
OpenFile(F, p) ==
    IF p \in DOMAIN F.dir THEN F
    ELSE LET i == FreshInode(F)
         IN [dir  |-> [q \in (DOMAIN F.dir) \cup {p} |-> IF q = p THEN i ELSE F.dir[q]],
             data |-> [j \in (DOMAIN F.data) \cup {i} |-> IF j = i THEN <<>> ELSE F.data[j]]]

\* write(2) on a descriptor opened with O_APPEND
AppendTo(F, i, bytes) == [F EXCEPT !.data[i] = @ \o bytes]

\* An inode lives while a name or an open file refers to it.
Reclaim(F, h) ==
    LET linked == {F.dir[p] : p \in DOMAIN F.dir}
        opened == IF h.ino # 0 /\ ~h.closed THEN {h.ino} ELSE {}
    IN [F EXCEPT !.data = [i \in (DOMAIN F.data) \cap (linked \cup opened) |-> F.data[i]]]

-----------------------------------------------------------------------------
(* The open file held in field w.  Nil is Go's nil. *)

Nil == [ino |-> 0, closed |-> FALSE]

\* a handle on inode i, as os.OpenFile / NewWriteCloser return it
Handle(i) == [ino |-> i, closed |-> FALSE]

\* Error values
ErrNil         == "nil"
ErrFileNotOpen == "ErrFileNotOpen"
ErrClosed      == "os.ErrClosed"
\* the error of a file-system call that failed
ErrIO          == "fs error"
Panic          == "panic"

\* the handle h has been closed: every copy of the pointer sees it closed
MarkClosed(hd, h) ==
    [g \in Goroutines |->
        IF h # Nil /\ hd[g] = h THEN [h EXCEPT !.closed = TRUE] ELSE hd[g]]

\* No call fails / the calls among calls that may fail in this step: any one
\* of them on a failing disk, none on a sound one.
NoFault == "none"
Faults(calls) == IF disk = "failing" THEN {NoFault} \cup calls ELSE {NoFault}

-----------------------------------------------------------------------------
(* History of the run.  It records what the callers did and saw; no action  *)
(* of the program reads it.                                                 *)
(*   nwrites   Write calls started so far (the n of Payload)                *)
(*   stream    the bytes file writes accepted, in the order accepted        *)
(*   rotated   the content of the active file at each doRollover, the most  *)
(*             recent first                                                 *)
(*   closedOK  a call of the exported Close has returned nil                *)
(*   writers   the goroutines whose Write has put bytes in a file           *)
(*   cur[g]    the call goroutine g is running                              *)
(*   last      the call that returned or panicked most recently, with its   *)
(*             result; forgotten when the next call begins                  *)
(* A call record holds: op and len (the method and the length of its        *)
(* argument), id (the n of a Write), after (closedOK held when the call     *)
(* began), open0 (w was an open file when the call tested or used it),      *)
(* size0 (size of the open file when Write tested the trigger), at0         *)
(* (rotatorAt when Write tested the deadline), rolled (the call ran         *)
(* doRollover), fault (the file-system call of its rotation that failed,    *)
(* "none" if none did), dst (the day in the name the rotation gave the      *)
(* retired file), had (the active file existed when it was retired), bc     *)
(* (backupCount as doRollover read it), steady (getFilesToDelete read the   *)
(* same backupCount), n and err (the result).                               *)

NoCall == [op |-> "none", id |-> 0, len |-> 0, open0 |-> FALSE, after |-> FALSE,
           rolled |-> FALSE, size0 |-> 0, at0 |-> 0, fault |-> "none",
           dst |-> 0, had |-> FALSE, bc |-> 0, steady |-> TRUE,
           n |-> 0, err |-> ErrNil]

HistInit(pre) ==
    [nwrites |-> 0, pre |-> pre, stream |-> <<>>, rotated |-> <<>>,
     closedOK |-> FALSE, writers |-> {}, cur |-> [g \in Goroutines |-> NoCall],
     last |-> NoCall]

\* goroutine g enters the exported method op
BeginCall(H, g, op, id, len) ==
    [H EXCEPT !.cur[g] = [NoCall EXCEPT !.op = op, !.id = id, !.len = len,
                                        !.after = H.closedOK],
              !.last = NoCall]

\* the call of g ends with result (n, err)
EndCall(H, g, n, err) ==
    [H EXCEPT !.last = [H.cur[g] EXCEPT !.n = n, !.err = err],
              !.cur[g] = NoCall,
              !.closedOK = @ \/ (H.cur[g].op = "Close" /\ err = ErrNil),
              !.writers = IF H.cur[g].op = "Write" /\ n > 0 THEN @ \cup {g} ELSE @]

-----------------------------------------------------------------------------
(* RotatingFile: rotation by size *)

\* function.Range(start, stop, step): start, start+step, ... short of stop
Range(start, stop, step) ==
    IF step < 0 /\ start > stop
    THEN [k \in 1..(((start - stop - 1) \div (0 - step)) + 1) |-> start + (k - 1) * step]
    ELSE IF step > 0 /\ start < stop
    THEN [k \in 1..(((stop - start - 1) \div step) + 1) |-> start + (k - 1) * step]
    ELSE <<>>

\* WriteCloser.Closed()
WC_Closed(h) == h.closed

\* WriteCloser.Close()
WC_Close(h) ==
    [w |-> [h EXCEPT !.closed = TRUE], err |-> IF h.closed THEN ErrClosed ELSE ErrNil]

\* WriteCloser.Write(data)
WC_Write(F, h, data) ==
    IF h.closed THEN [fs |-> F, n |-> 0, err |-> ErrClosed]
    ELSE [fs |-> AppendTo(F, h.ino, data), n |-> Len(data), err |-> ErrNil]

\* RotatingFile.open, on S = [fs, w, nbytes, err]; fault is the call that
\* fails, if any.  When Stat fails the file has been opened, and created if
\* it was missing, but r.w is not assigned.
R_open(S, fault) ==
    IF fault = "open" THEN [S EXCEPT !.err = ErrIO]
    ELSE LET F == OpenFile(S.fs, Target)
             i == F.dir[Target]
         IN IF fault = "stat" THEN [S EXCEPT !.fs = F, !.err = ErrIO]
            ELSE [fs |-> F, w |-> Handle(i), nbytes |-> Len(F.data[i]), err |-> ErrNil]

\* close without the test r.w != nil: a method call through a nil pointer
R_close_unguarded(S, fault) ==
    IF S.w # Nil
    THEN [S EXCEPT !.w = Nil,
                   !.err = IF fault = "close" THEN ErrIO ELSE WC_Close(S.w).err]
    ELSE [S EXCEPT !.err = Panic]

\* RotatingFile.close
R_close(S, fault) ==
    IF S.w # Nil
    THEN [S EXCEPT !.w = Nil,
                   !.err = IF fault = "close" THEN ErrIO ELSE WC_Close(S.w).err]
    ELSE [S EXCEPT !.err = ErrNil]

\* the loop of doRollover over i in seq, on the directory F; the result is
\* [fs, err]
RECURSIVE R_shift(_, _, _)
R_shift(F, seq, fault) ==
    IF seq = <<>> THEN [fs |-> F, err |-> ErrNil]
    ELSE LET i   == Head(seq)
             sfn == Numbered(i)
             dfn == Numbered(i + 1)
         IN IF IsExist(F, sfn) /\ IsExist(F, dfn)
            THEN IF fault = "remove" THEN [fs |-> F, err |-> ErrIO]
                 ELSE IF fault = "rename" THEN [fs |-> Remove(F, dfn), err |-> ErrIO]
                 ELSE R_shift(Rename(Remove(F, dfn), sfn, dfn), Tail(seq), fault)
            ELSE R_shift(F, Tail(seq), fault)

\* the end of the backupCount > 0 branch of doRollover: the active file
\* becomes filename.1; the result is [fs, err]
R_retire(F, fault) ==
    LET dfn == Numbered(1)
    IN IF IsExist(F, dfn) /\ fault = "remove" THEN [fs |-> F, err |-> ErrIO]
       ELSE LET F1 == IF IsExist(F, dfn) THEN Remove(F, dfn) ELSE F
            IN IF ~IsExist(F1, Target) THEN [fs |-> F1, err |-> ErrNil]
               ELSE IF fault = "rename" THEN [fs |-> F1, err |-> ErrIO]
               ELSE [fs |-> Rename(F1, Target, dfn), err |-> ErrNil]

\* RotatingFile.doRollover up to its last statement, return r.open(): the
\* error of r.close() is dropped
R_doRollover(S, bc, fault) ==
    LET S1 == R_close(S, fault)
    IN IF bc > 0
       THEN LET sh == R_shift(S1.fs, Range(bc - 1, 0, -1), fault)
                rt == R_retire(sh.fs, fault)
            IN IF sh.err # ErrNil
               THEN [S1 EXCEPT !.fs = sh.fs, !.err = sh.err]
               ELSE [S1 EXCEPT !.fs = rt.fs, !.err = rt.err]
       ELSE [S1 EXCEPT !.err = ErrNil]

\* the test of RotatingFile.Write for a writer that is not open
R_notOpen(h) == h = Nil \/ WC_Closed(h)

\* the trigger with >= for >: a file filled to exactly maxSize rotates
R_shouldRollover_atLimit(n, len, max) == n + len >= max

\* the trigger that spares an empty file
R_shouldRollover_unlessEmpty(n, len, max) == n > 0 /\ n + len > max

\* the rotation trigger of RotatingFile.Write
R_shouldRollover(n, len, max) == n + len > max

-----------------------------------------------------------------------------
(* Steps of the methods of RotatingFile *)

\* the fields of the struct that open, close and doRollover assign
R_state == [fs |-> fs, w |-> w, nbytes |-> nbytes, err |-> ErrNil]

timedVars == <<interval, rotatorAt, now>>

\* g returns from a method that holds the mutex (defer r.Unlock())
R_return(g, H, n, err) ==
    /\ lock' = 0
    /\ pc'   = [pc EXCEPT ![g] = "idle"]
    /\ hist' = EndCall(H, g, n, err)

\* Write, line 236: r.Lock().  A goroutine blocked in Lock has changed
\* nothing yet: in the model its call begins when it gets the mutex.
R_Write_Lock(g, len) ==
    /\ kind = "size" /\ ~crashed
    /\ pc[g] = "idle" /\ lock = 0
    /\ hist.nwrites < MaxWrites
    /\ lock' = g
    /\ pc'   = [pc EXCEPT ![g] = "rw_check"]
    /\ arg'  = [arg EXCEPT ![g] = Payload(hist.nwrites + 1, len)]
    /\ hist' = [BeginCall(hist, g, "Write", hist.nwrites + 1, len)
                   EXCEPT !.nwrites = @ + 1]
    /\ UNCHANGED <<kind, disk, held, fs, w, maxSize, nbytes, backupCount, timedVars, crashed>>

\* Write, lines 239-242: the writer must be open
R_Write_Check(g) ==
    /\ kind = "size" /\ ~crashed
    /\ pc[g] = "rw_check"
    /\ IF R_notOpen(w)
       THEN R_return(g, hist, 0, ErrFileNotOpen)
       ELSE /\ pc'   = [pc EXCEPT ![g] = "rw_roll"]
            /\ hist' = [hist EXCEPT !.cur[g].open0 = TRUE]
            /\ UNCHANGED lock
    /\ UNCHANGED <<kind, disk, held, fs, w, maxSize, nbytes, backupCount, timedVars, arg, crashed>>

\* Write, lines 244-248: rotate when the data would not fit; doRollover up
\* to its last statement
R_Write_Roll(g) ==
    /\ kind = "size" /\ ~crashed
    /\ pc[g] = "rw_roll"
    /\ LET H == [hist EXCEPT !.cur[g].size0 = Len(fs.data[w.ino])]
       IN IF R_shouldRollover(nbytes, Len(arg[g]), maxSize)
          THEN \E fault \in Faults({"close", "remove", "rename"}) :
               LET S  == R_doRollover(R_state, backupCount, fault)
                   H1 == [H EXCEPT !.cur[g].rolled = TRUE,
                                   !.cur[g].fault =
                                       IF fault = "close" \/ S.err # ErrNil
                                       THEN fault ELSE @,
                                   !.rotated = <<fs.data[w.ino]>> \o @]
               IN /\ fs'   = Reclaim(S.fs, S.w)
                  /\ w'    = S.w
                  /\ held' = MarkClosed(held, w)
                  /\ IF S.err # ErrNil
                     THEN R_return(g, H1, 0, S.err)
                     ELSE /\ pc'   = [pc EXCEPT ![g] = "rw_open"]
                          /\ hist' = H1
                          /\ UNCHANGED lock
          ELSE /\ pc'   = [pc EXCEPT ![g] = "rw_write"]
               /\ hist' = H
               /\ UNCHANGED <<fs, w, held, lock>>
    /\ UNCHANGED <<kind, disk, maxSize, nbytes, backupCount, timedVars, arg, crashed>>

\* doRollover, line 307: return r.open()
R_Roll_Open(g) ==
    /\ kind = "size" /\ ~crashed
    /\ pc[g] = "rw_open"
    /\ \E fault \in Faults({"open", "stat"}) :
          LET S == R_open(R_state, fault)
              H == [hist EXCEPT !.cur[g].fault = IF fault = NoFault THEN @ ELSE fault]
          IN /\ fs'     = S.fs
             /\ w'      = S.w
             /\ nbytes' = S.nbytes
             /\ IF S.err # ErrNil
                THEN R_return(g, H, 0, S.err)
                ELSE /\ pc'   = [pc EXCEPT ![g] = "rw_write"]
                     /\ hist' = H
                     /\ UNCHANGED lock
    /\ UNCHANGED <<kind, disk, held, maxSize, backupCount, timedVars, arg, crashed>>

\* Write, lines 250-254: write the data and count it
R_Write_Data(g) ==
    /\ kind = "size" /\ ~crashed
    /\ pc[g] = "rw_write"
    /\ LET r == WC_Write(fs, w, arg[g])
       IN /\ fs' = r.fs
          /\ nbytes' = IF r.err # ErrNil THEN nbytes ELSE nbytes + r.n
          /\ R_return(g, [hist EXCEPT !.stream = @ \o SubSeq(arg[g], 1, r.n)], r.n, r.err)
    /\ UNCHANGED <<kind, disk, held, w, maxSize, backupCount, timedVars, arg, crashed>>

\* Close, line 264: r.Lock()
R_Close_Lock(g) ==
    /\ kind = "size" /\ ~crashed
    /\ pc[g] = "idle" /\ lock = 0
    /\ lock' = g
    /\ pc'   = [pc EXCEPT ![g] = "rc_close"]
    /\ hist' = BeginCall(hist, g, "Close", 0, 0)
    /\ UNCHANGED <<kind, disk, held, fs, w, maxSize, nbytes, backupCount, timedVars, arg, crashed>>

\* Close, lines 265-267: err = r.close(); r.Unlock()
R_Close_Body(g) ==
    /\ kind = "size" /\ ~crashed
    /\ pc[g] = "rc_close"
    /\ \E fault \in Faults({"close"}) :
          LET S == R_close(R_state, fault)
          IN /\ w'    = S.w
             /\ fs'   = Reclaim(S.fs, S.w)
             /\ held' = MarkClosed(held, w)
             /\ R_return(g, [hist EXCEPT !.cur[g].open0 = (w # Nil)], 0, S.err)
    /\ UNCHANGED <<kind, disk, maxSize, nbytes, backupCount, timedVars, arg, crashed>>

\* WriteString, line 259: the goroutine loads r.w; no lock is taken
R_WriteString_Load(g, len) ==
    /\ kind = "size" /\ ~crashed
    /\ pc[g] = "idle"
    /\ hist.nwrites < MaxWrites
    /\ held' = [held EXCEPT ![g] = w]
    /\ pc'   = [pc EXCEPT ![g] = "rs_write"]
    /\ arg'  = [arg EXCEPT ![g] = Payload(hist.nwrites + 1, len)]
    /\ hist' = [BeginCall(hist, g, "WriteString", hist.nwrites + 1, len)
                   EXCEPT !.nwrites = @ + 1,
                          !.cur[g].open0 = (w # Nil),
                          !.cur[g].size0 = nbytes]
    /\ UNCHANGED <<kind, disk, fs, w, maxSize, nbytes, backupCount, timedVars, lock,
                   crashed>>

\* WriteString, line 259: return r.w.Write([]byte(data)) on the pointer
\* loaded; through a nil pointer the call panics
R_WriteString_Data(g) ==
    /\ kind = "size" /\ ~crashed
    /\ pc[g] = "rs_write"
    /\ pc'   = [pc EXCEPT ![g] = "idle"]
    /\ held' = [held EXCEPT ![g] = Nil]
    /\ IF held[g] = Nil
       THEN /\ crashed' = TRUE
            /\ hist' = EndCall(hist, g, 0, Panic)
            /\ UNCHANGED fs
       ELSE LET r == WC_Write(fs, held[g], arg[g])
            IN /\ fs' = r.fs
               /\ hist' = EndCall([hist EXCEPT !.stream = @ \o SubSeq(arg[g], 1, r.n)],
                                  g, r.n, r.err)
               /\ UNCHANGED crashed
    /\ UNCHANGED <<kind, disk, w, maxSize, nbytes, backupCount, timedVars, lock, arg>>

\* another process removes the active file from the directory
ExternalRemove ==
    /\ disk = "failing" /\ ~crashed
    /\ IsExist(fs, Target)
    /\ fs' = Reclaim(Remove(fs, Target), w)
    /\ UNCHANGED <<kind, disk, held, w, maxSize, nbytes, backupCount, timedVars, lock,
                   pc, arg, crashed, hist>>

-----------------------------------------------------------------------------
(* TimedRotatingFile: rotation by day *)

\* var day int64 = 3600 * 24, the value of field when
day == 86400

\* NewTimedRotatingFile: t.SetBackupCount(31)
DefaultBackupCount == 31

\* NewTimedRotatingFile: SetInterval(1)
DefaultInterval == 1

\* time.Unix(t, 0).Hour(), .Minute(), .Second() in the local zone
T_Hour(t)   == (t % day) \div 3600
T_Minute(t) == (t % 3600) \div 60
T_Second(t) == t % 60

\* time.Unix(t, 0).Format(DAY_FMT): the calendar day t falls in, counted
\* from the day of the epoch.  Dates of the form YYYY-MM-DD sort as strings
\* in the order of their days.
T_Format(t) == t \div day

\* Write without the test t.w == nil
T_notOpen_untested(h) == FALSE

\* the test of TimedRotatingFile.Write for a writer that is not open
T_notOpen(h) == h = Nil

\* shouldRollover a day late
T_shouldRollover_late(t, at) == t >= at + day

\* TimedRotatingFile.shouldRollover
T_shouldRollover(t, at) == t >= at

\* reComputeRollover without the time of day taken off: now + interval
T_reComputeRollover_fromNow(currentTime, iv) == currentTime + iv

\* TimedRotatingFile.reComputeRollover: the new rotatorAt
T_reComputeRollover(currentTime, iv) ==
    LET currentHour   == T_Hour(currentTime)
        currentMinute == T_Minute(currentTime)
        currentSecond == T_Second(currentTime)
        r == iv - ((currentHour * 60 + currentMinute) * 60 + currentSecond)
    IN currentTime + r

\* (*os.File).Close: the descriptor is released also when the call fails
File_Close(h, fault) ==
    [w   |-> [h EXCEPT !.closed = TRUE],
     err |-> IF h.closed THEN ErrClosed ELSE IF fault = "close" THEN ErrIO ELSE ErrNil]

\* (*os.File).Write(data)
File_Write(F, h, data) ==
    IF h.closed THEN [fs |-> F, n |-> 0, err |-> ErrClosed]
    ELSE [fs |-> AppendTo(F, h.ino, data), n |-> Len(data), err |-> ErrNil]

\* getFilesToDelete, lines 174-188: the names filename.<suffix> whose suffix
\* matches dayRE
T_isBackup(p) == p[1] = 2

\* sort.Strings order on backup names
T_nameLess(p, q) == p[2] < q[2] \/ (p[2] = q[2] /\ p[3] < q[3])

\* getFilesToDelete, lines 167-188: result, the backups in the directory
T_backups(F) == {p \in DOMAIN F.dir : T_isBackup(p)}

\* getFilesToDelete, lines 193-194: result[:k] of the sorted result
T_oldest(result, k) ==
    {p \in result : Cardinality({q \in result : T_nameLess(q, p)}) < k}

\* os.Remove of every name in ps
RemoveAll(F, ps) ==
    [F EXCEPT !.dir = [q \in (DOMAIN F.dir) \ ps |-> F.dir[q]]]

\* the name doRollover gives the file it retires: the date of the start of
\* the period that ended
T_dstPath(at, iv) == Dated(T_Format(at - iv))

\* doRollover, lines 144-154: retire the active file under dstPath.  The
\* result is [fs, err, failed]; failed says that a call failed.  The error of
\* os.Remove is dropped, and os.Rename replaces a file left at dstPath.
T_retire(F, at, iv, fault) ==
    LET dstPath == T_dstPath(at, iv)
        rmFails == IsExist(F, dstPath) /\ fault = "remove"
        F1 == IF IsExist(F, dstPath) /\ ~rmFails THEN Remove(F, dstPath) ELSE F
    IN IF ~IsFile(F1, Target) THEN [fs |-> F1, err |-> ErrNil, failed |-> rmFails]
       ELSE IF fault = "rename" THEN [fs |-> F1, err |-> ErrIO, failed |-> TRUE]
       ELSE [fs |-> Rename(F1, Target, dstPath), err |-> ErrNil, failed |-> rmFails]

\* TimedRotatingFile.open
T_open(F, fault) ==
    IF fault = "open" THEN [fs |-> F, w |-> Nil, err |-> ErrIO]
    ELSE LET F1 == OpenFile(F, Target)
         IN [fs |-> F1, w |-> Handle(F1.dir[Target]), err |-> ErrNil]

-----------------------------------------------------------------------------
(* Steps of the methods of TimedRotatingFile *)

sizeVars == <<maxSize, nbytes>>

\* g returns from a method; unlock says whether it holds the mutex
T_return(g, H, n, err, unlock) ==
    /\ lock' = IF unlock THEN 0 ELSE lock
    /\ pc'   = [pc EXCEPT ![g] = "idle"]
    /\ hist' = EndCall(H, g, n, err)
    /\ crashed' = (err = Panic)

\* Write, line 86: t.Lock(), entered as method op
T_Write_Begin(g, len, op) ==
    /\ kind = "timed" /\ ~crashed
    /\ pc[g] = "idle" /\ lock = 0
    /\ hist.nwrites < MaxTimedWrites
    /\ lock' = g
    /\ pc'   = [pc EXCEPT ![g] = "tw_check"]
    /\ arg'  = [arg EXCEPT ![g] = Payload(hist.nwrites + 1, len)]
    /\ hist' = [BeginCall(hist, g, op, hist.nwrites + 1, len)
                   EXCEPT !.nwrites = @ + 1]
    /\ UNCHANGED <<kind, disk, held, fs, w, sizeVars, backupCount, timedVars, crashed>>

\* Write(data)
T_Write_Lock(g, len) == T_Write_Begin(g, len, "Write")

\* WriteString, line 81: return t.Write([]byte(data))
T_WriteString(g, len) == T_Write_Begin(g, len, "WriteString")

\* Write, lines 89-92: if t.w == nil
T_Write_Check(g) ==
    /\ kind = "timed" /\ ~crashed
    /\ pc[g] = "tw_check"
    /\ IF T_notOpen(w)
       THEN T_return(g, hist, 0, ErrFileNotOpen, TRUE)
       ELSE /\ pc'   = [pc EXCEPT ![g] = "tw_should"]
            /\ hist' = [hist EXCEPT !.cur[g].open0 = ~w.closed]
            /\ UNCHANGED <<lock, crashed>>
    /\ UNCHANGED <<kind, disk, held, fs, w, sizeVars, backupCount, timedVars, arg>>

\* Write, line 94: if t.shouldRollover()
T_Write_Should(g) ==
    /\ kind = "timed" /\ ~crashed
    /\ pc[g] = "tw_should"
    /\ pc'   = [pc EXCEPT ![g] = IF T_shouldRollover(now, rotatorAt)
                                 THEN "tr_close1" ELSE "tw_write"]
    /\ hist' = [hist EXCEPT !.cur[g].at0 = rotatorAt,
                            !.cur[g].rolled = T_shouldRollover(now, rotatorAt)]
    /\ UNCHANGED <<kind, disk, held, fs, w, sizeVars, backupCount, timedVars, lock, arg, crashed>>

\* Close, line 123: if err = t.w.Close(); err != nil { return }
\* run by g; onward is where g goes when the file closed
T_Close_1(g, H, onward) ==
    /\ IF w = Nil
       THEN /\ T_return(g, H, 0, Panic, lock = g)
            /\ UNCHANGED w
       ELSE \E fault \in Faults({"close"}) :
            LET r  == File_Close(w, fault)
                H1 == [H EXCEPT !.cur[g].fault = IF r.err = ErrIO THEN fault ELSE @]
            IN /\ w' = r.w
               /\ IF r.err # ErrNil
                  THEN T_return(g, H1, 0, r.err, lock = g)
                  ELSE /\ pc' = [pc EXCEPT ![g] = onward]
                       /\ hist' = H1
                       /\ UNCHANGED <<lock, crashed>>
    /\ fs' = Reclaim(fs, w')
    /\ UNCHANGED <<kind, disk, held, sizeVars, backupCount, timedVars, arg>>

\* a goroutine calls the exported Close and runs line 123; no lock is taken
T_Close_Begin(g) ==
    /\ kind = "timed" /\ ~crashed
    /\ pc[g] = "idle"
    /\ T_Close_1(g, [BeginCall(hist, g, "Close", 0, 0)
                        EXCEPT !.cur[g].open0 = (w # Nil /\ ~w.closed)], "tc_2")

\* Close, lines 126-127, of the exported Close: t.w = nil; return
T_Close_End(g) ==
    /\ kind = "timed" /\ ~crashed
    /\ pc[g] = "tc_2"
    /\ w' = Nil
    /\ fs' = Reclaim(fs, Nil)
    /\ T_return(g, hist, 0, ErrNil, FALSE)
    /\ UNCHANGED <<kind, disk, held, sizeVars, backupCount, timedVars, arg>>

\* doRollover, line 140: t.Close(), its line 123
T_Roll_Close1(g) ==
    /\ kind = "timed" /\ ~crashed
    /\ pc[g] = "tr_close1"
    /\ T_Close_1(g, hist, "tr_close2")

\* doRollover, line 140: t.Close(), its lines 126-127
T_Roll_Close2(g) ==
    /\ kind = "timed" /\ ~crashed
    /\ pc[g] = "tr_close2"
    /\ w' = Nil
    /\ fs' = Reclaim(fs, Nil)
    /\ pc' = [pc EXCEPT ![g] = "tr_retire"]
    /\ UNCHANGED <<kind, disk, held, sizeVars, backupCount, timedVars, lock, arg, crashed, hist>>

\* doRollover, lines 144-156: retire the active file and read backupCount
T_Roll_Retire(g) ==
    /\ kind = "timed" /\ ~crashed
    /\ pc[g] = "tr_retire"
    /\ \E fault \in Faults({"remove", "rename"}) :
          LET r == T_retire(fs, rotatorAt, interval, fault)
              H == [hist EXCEPT
                      !.cur[g].fault = IF r.failed THEN fault ELSE @,
                      !.cur[g].dst   = T_Format(rotatorAt - interval),
                      !.cur[g].had   = IsFile(fs, Target),
                      !.cur[g].bc    = backupCount,
                      !.rotated = <<IF IsExist(fs, Target) THEN Content(fs, Target)
                                    ELSE <<>> >> \o @]
          IN /\ fs' = Reclaim(r.fs, w)
             /\ IF r.err # ErrNil
                THEN T_return(g, H, 0, r.err, TRUE)
                ELSE /\ pc' = [pc EXCEPT ![g] = IF backupCount > 0 THEN "tr_list"
                                                ELSE "tr_recompute"]
                     /\ hist' = H
                     /\ UNCHANGED <<lock, crashed>>
    /\ UNCHANGED <<kind, disk, held, w, sizeVars, backupCount, timedVars, arg>>

\* getFilesToDelete, lines 166-192: list the directory, collect the backups
\* and compare their number with backupCount; a failure of the listing is
\* answered with an empty result
T_Roll_List(g) ==
    /\ kind = "timed" /\ ~crashed
    /\ pc[g] = "tr_list"
    /\ \E fault \in Faults({"list"}) :
          /\ pc' = [pc EXCEPT ![g] =
                       IF fault = "list" \/ Cardinality(T_backups(fs)) <= backupCount
                       THEN "tr_recompute" ELSE "tr_prune"]
          /\ hist' = [hist EXCEPT
                        !.cur[g].fault  = IF fault = "list" THEN fault ELSE @,
                        !.cur[g].steady = (backupCount = hist.cur[g].bc)]
    /\ UNCHANGED <<kind, disk, held, fs, w, sizeVars, backupCount, timedVars, lock, arg,
                   crashed>>

\* getFilesToDelete, lines 193-194, and doRollover, lines 157-159: all but
\* the last backupCount names of the sorted result are removed; the errors
\* of os.Remove are dropped.  A backupCount grown past the length of the
\* result since line 190 makes the slice bound negative: a run-time panic.
T_Roll_Prune(g) ==
    /\ kind = "timed" /\ ~crashed
    /\ pc[g] = "tr_prune"
    /\ LET result == T_backups(fs)
           k      == Cardinality(result) - backupCount
           H      == [hist EXCEPT !.cur[g].steady = @ /\ (backupCount = hist.cur[g].bc)]
       IN IF k < 0
          THEN /\ T_return(g, H, 0, Panic, TRUE)
               /\ UNCHANGED fs
          ELSE \E failed \in (IF disk = "failing" THEN SUBSET T_oldest(result, k) ELSE {{}}) :
                  /\ fs' = RemoveAll(fs, T_oldest(result, k) \ failed)
                  /\ pc' = [pc EXCEPT ![g] = "tr_recompute"]
                  /\ hist' = [H EXCEPT !.cur[g].fault = IF failed # {} THEN "remove" ELSE @]
                  /\ UNCHANGED <<lock, crashed>>
    /\ UNCHANGED <<kind, disk, held, w, sizeVars, backupCount, timedVars, arg>>

\* doRollover, line 162: t.reComputeRollover()
T_Roll_Recompute(g) ==
    /\ kind = "timed" /\ ~crashed
    /\ pc[g] = "tr_recompute"
    /\ rotatorAt' = T_reComputeRollover(now, interval)
    /\ pc' = [pc EXCEPT ![g] = "tr_open"]
    /\ UNCHANGED <<kind, disk, held, fs, w, sizeVars, backupCount, interval, now, lock, arg,
                   crashed, hist>>

\* doRollover, line 163: return t.open()
T_Roll_Open(g) ==
    /\ kind = "timed" /\ ~crashed
    /\ pc[g] = "tr_open"
    /\ \E fault \in Faults({"open"}) :
          LET r == T_open(fs, fault)
              H == [hist EXCEPT !.cur[g].fault = IF fault = "open" THEN fault ELSE @]
          IN /\ fs' = r.fs
             /\ w'  = r.w
             /\ IF r.err # ErrNil
                THEN T_return(g, H, 0, r.err, TRUE)
                ELSE /\ pc' = [pc EXCEPT ![g] = "tw_write"]
                     /\ hist' = H
                     /\ UNCHANGED <<lock, crashed>>
    /\ UNCHANGED <<kind, disk, held, sizeVars, backupCount, timedVars, arg>>

\* Write, line 100: return t.w.Write(data)
T_Write_Data(g) ==
    /\ kind = "timed" /\ ~crashed
    /\ pc[g] = "tw_write"
    /\ IF w = Nil
       THEN /\ T_return(g, hist, 0, Panic, TRUE)
            /\ UNCHANGED fs
       ELSE LET r == File_Write(fs, w, arg[g])
            IN /\ fs' = r.fs
               /\ T_return(g, [hist EXCEPT !.stream = @ \o SubSeq(arg[g], 1, r.n)],
                           r.n, r.err, TRUE)
    /\ UNCHANGED <<kind, disk, held, w, sizeVars, backupCount, timedVars, arg>>

\* SetInterval, line 111: t.interval = int64(interval) * t.when
T_SetInterval_1(g, days) ==
    /\ kind = "timed" /\ ~crashed
    /\ pc[g] = "idle"
    /\ interval' = days * day
    /\ pc' = [pc EXCEPT ![g] = "ti_2"]
    /\ UNCHANGED <<kind, disk, held, fs, w, sizeVars, backupCount, rotatorAt, now, lock, arg,
                   crashed, hist>>

\* SetInterval, lines 112-113: t.reComputeRollover(); return t
T_SetInterval_2(g) ==
    /\ kind = "timed" /\ ~crashed
    /\ pc[g] = "ti_2"
    /\ rotatorAt' = T_reComputeRollover(now, interval)
    /\ pc' = [pc EXCEPT ![g] = "idle"]
    /\ UNCHANGED <<kind, disk, held, fs, w, sizeVars, backupCount, interval, now, lock, arg,
                   crashed, hist>>

\* SetBackupCount, lines 105-106: t.backupCount = num; return t
T_SetBackupCount(g, num) ==
    /\ kind = "timed" /\ ~crashed
    /\ pc[g] = "idle"
    /\ backupCount' = num
    /\ UNCHANGED <<kind, disk, held, fs, w, sizeVars, timedVars, lock, pc, arg, crashed, hist>>

\* the wall clock advances by 20h34m56s at a time
TickSteps == {20 * 3600 + 34 * 60 + 56}

Tick(d) ==
    /\ kind = "timed" /\ ~crashed
    /\ now + d <= MaxDays * day
    /\ now' = now + d
    /\ UNCHANGED <<kind, disk, held, fs, w, sizeVars, backupCount, interval, rotatorAt, lock, pc,
                   arg, crashed, hist>>

-----------------------------------------------------------------------------
(* Construction *)

\* what the target directory may hold before the writer is constructed
PreFS(k) ==
    [dir |-> (Target :> 1), data |-> (1 :> PreContent(k))]

PreFSs == {EmptyFS} \cup {PreFS(k) : k \in 0..MaxPreLen}

\* the content of a backup that an earlier run left in the directory
OldContent == <<<<-1, 1>>>>

\* F with what earlier runs and other programs left in the directory: a
\* compressed backup of the day before the epoch, a backup of the day of the
\* epoch and a file of another name
Littered(F) ==
    LET i == FreshInode(F)
    IN [dir  |-> [q \in (DOMAIN F.dir) \cup {DatedExt(-1), Dated(0), Other} |->
                     IF q = DatedExt(-1) THEN i
                     ELSE IF q = Dated(0) THEN i + 1
                     ELSE IF q = Other THEN i + 2 ELSE F.dir[q]],
        data |-> [j \in (DOMAIN F.data) \cup {i, i + 1, i + 2} |->
                     IF j = i + 1 THEN OldContent
                     ELSE IF j \in {i, i + 2} THEN <<>> ELSE F.data[j]]]

\* the directories a TimedRotatingFile is constructed in
TimedPreFSs == PreFSs \cup {Littered(PreFS(MaxPreLen))}

\* NewRotatingFile(filename, size, count)
NewRotatingFile(F, size, count) ==
    LET S == R_open([fs |-> F, w |-> Nil, nbytes |-> 0, err |-> ErrNil], NoFault)
    IN /\ kind = "size"
       /\ fs = S.fs /\ w = S.w /\ nbytes = S.nbytes
       /\ maxSize = size /\ backupCount = count
       /\ interval = 0 /\ rotatorAt = 0 /\ now = 0

\* NewTimedRotatingFile(filename), called at time t0
NewTimedRotatingFile(F, t0) ==
    LET r == T_open(F, NoFault)
    IN /\ kind = "timed"
       /\ now = t0
       /\ backupCount = DefaultBackupCount
       /\ interval = DefaultInterval * day
       /\ rotatorAt = T_reComputeRollover(t0, DefaultInterval * day)
       /\ fs = r.fs /\ w = r.w
       /\ maxSize = 0 /\ nbytes = 0

\* the writer is constructed at 12:34:56 of the day of the epoch
StartTimes == {12 * 3600 + 34 * 60 + 56}

Idle ==
    /\ lock = 0
    /\ pc = [g \in Goroutines |-> "idle"]
    /\ arg = [g \in Goroutines |-> <<>>]
    /\ held = [g \in Goroutines |-> Nil]
    /\ crashed = FALSE

\* a writer of either kind has been constructed
Constructed ==
    /\ \E F \in TimedPreFSs :
          /\ \/ /\ F \in PreFSs
                /\ \E size \in 1..MaxMaxSize, count \in 0..MaxBackupCount :
                      NewRotatingFile(F, size, count)
             \/ \E t0 \in StartTimes : NewTimedRotatingFile(F, t0)
          /\ hist = HistInit(IF IsExist(F, Target) THEN Content(F, Target) ELSE <<>>)
    /\ Idle

\* a writer of either kind has been constructed, on a sound disk
Init == disk = "sound" /\ Constructed

\* a TimedRotatingFile has been constructed, on a sound disk
InitTimed == Init /\ kind = "timed"

\* a writer of either kind has been constructed, on a failing disk
InitEnv == disk = "failing" /\ Constructed

\* the steps of RotatingFile.Write
NextSizeWrite ==
    \E g \in Goroutines :
        \/ \E len \in 0..MaxLen : R_Write_Lock(g, len)
        \/ R_Write_Check(g)
        \/ R_Write_Roll(g)
        \/ R_Roll_Open(g)
        \/ R_Write_Data(g)

\* the steps of RotatingFile.Close
NextSizeClose ==
    \E g \in Goroutines :
        \/ R_Close_Lock(g)
        \/ R_Close_Body(g)

\* the steps of RotatingFile.Write and RotatingFile.Close
NextSize == NextSizeWrite \/ NextSizeClose

\* the steps of TimedRotatingFile.Write, and the clock; the removal of the
\* excess backups is NextTimedPrune
NextTimedWrite ==
    \/ \E g \in Goroutines :
        \/ \E len \in 0..MaxTimedLen : T_Write_Lock(g, len)
        \/ T_Write_Check(g)
        \/ T_Write_Should(g)
        \/ T_Roll_Close1(g)
        \/ T_Roll_Close2(g)
        \/ T_Roll_Retire(g)
        \/ T_Roll_List(g)
        \/ T_Roll_Recompute(g)
        \/ T_Roll_Open(g)
        \/ T_Write_Data(g)
    \/ \E d \in TickSteps : Tick(d)

\* the steps of TimedRotatingFile.Close
NextTimedClose ==
    \E g \in Goroutines :
        \/ T_Close_Begin(g)
        \/ T_Close_End(g)

\* the step of TimedRotatingFile.Write that removes the excess backups; it
\* is reached only after SetBackupCount has lowered the default of 31
NextTimedPrune ==
    \E g \in Goroutines : T_Roll_Prune(g)

\* TimedRotatingFile.SetBackupCount
NextTimedCount ==
    \E g \in Goroutines :
        \E num \in 0..MaxTimedBackupCount : T_SetBackupCount(g, num)

\* the steps of TimedRotatingFile.SetInterval
NextTimedInterval ==
    \E g \in Goroutines :
        \/ \E days \in 0..MaxIntervalDays : T_SetInterval_1(g, days)
        \/ T_SetInterval_2(g)

\* RotatingFile.WriteString
NextSizeString ==
    \E g \in Goroutines :
        \/ \E len \in 1..MaxStringLen : R_WriteString_Load(g, len)
        \/ R_WriteString_Data(g)

\* TimedRotatingFile.WriteString
NextTimedString ==
    \E g \in Goroutines :
        \E len \in 0..MaxTimedLen : T_WriteString(g, len)

\* Writers of both kinds, written to and closed by the goroutines; the
\* retention of the TimedRotatingFile is changed while it runs.
Next == NextSize \/ NextTimedWrite \/ NextTimedPrune \/ NextTimedClose \/ NextTimedCount

Spec == Init /\ [][Next]_vars

\* A TimedRotatingFile written to by the goroutines while its interval is
\* changed.
NextInterval == NextTimedWrite \/ NextTimedInterval

SpecInterval == InitTimed /\ [][NextInterval]_vars

\* Writers of both kinds written to with Write and with WriteString, the
\* RotatingFile closed as well.
NextString == NextSize \/ NextSizeString \/ NextTimedWrite \/ NextTimedString

SpecString == Init /\ [][NextString]_vars

\* Writers of both kinds written to on a failing disk.
NextEnv == NextSizeWrite \/ NextTimedWrite \/ ExternalRemove

SpecEnv == InitEnv /\ [][NextEnv]_vars

-----------------------------------------------------------------------------
(* Properties of RotatingFile *)

\* the numbers i for which filename.i exists
BackupNumbers == {i \in 1..(MaxBackupCount + 2) : IsExist(fs, Numbered(i))}

\* the contents of filename.k, ..., filename.1 one after the other
RECURSIVE BackupsOldestFirst(_)
BackupsOldestFirst(k) ==
    IF k = 0 THEN <<>>
    ELSE (IF IsExist(fs, Numbered(k)) THEN Content(fs, Numbered(k)) ELSE <<>>)
         \o BackupsOldestFirst(k - 1)

\* every byte on disk: the backups from the oldest to the newest, then the
\* active file
OnDisk ==
    BackupsOldestFirst(MaxBackupCount + 2)
    \o (IF IsExist(fs, Target) THEN Content(fs, Target) ELSE <<>>)

\* C1: with backupCount = N > 0, once more than N rotations have happened
\* exactly filename.1 .. filename.N exist, and filename.k holds the content
\* of the k-th most recently rotated active file.
C1_RetentionLadder ==
    (kind = "size" /\ backupCount > 0 /\ Len(hist.rotated) > backupCount)
    => /\ BackupNumbers = 1..backupCount
       /\ \A k \in 1..backupCount : Content(fs, Numbered(k)) = hist.rotated[k]

\* C2: the backups from the oldest to the newest followed by the active file
\* are exactly the bytes written, none twice and none missing.  Stated for a
\* writer constructed on an empty path and for the runs in which no backup
\* is due to be discarded yet: at most backupCount rotations have happened.
C2_NoByteLoss ==
    (kind = "size" /\ hist.pre = <<>> /\ Len(hist.rotated) <= backupCount)
    => OnDisk = hist.stream

\* The case of C3: a size-based writer on an empty path with backupCount >= 2,
\* open, whose earlier writes add up to exactly maxSize, has just returned
\* from one further Write.
C3_Case ==
    /\ kind = "size" /\ backupCount >= 2 /\ hist.pre = <<>>
    /\ hist.last.op = "Write" /\ hist.last.open0
    /\ Len(hist.stream) - hist.last.n = maxSize

\* What C3 says of that state: one rotation has happened, the active file
\* holds the last write only, filename.1 holds the earlier writes and there
\* is no filename.2.
C3_Outcome ==
    /\ hist.last.rolled /\ Len(hist.rotated) = 1
    /\ Content(fs, Target) = Payload(hist.last.id, hist.last.len)
    /\ IsExist(fs, Numbered(1))
    /\ Content(fs, Numbered(1)) = SubSeq(hist.stream, 1, maxSize)
    /\ ~IsExist(fs, Numbered(2))

\* C3 as claimed: after writes that fill the file to exactly maxSize, one
\* further write, whatever its length, leaves exactly one rotation behind.
C3_AnyFurtherWrite == C3_Case => C3_Outcome

\* C3 as amended: the further write holds at least one byte.
C3_FurtherWriteRotatesOnce == (C3_Case /\ hist.last.len > 0) => C3_Outcome

\* reached: maxSize = 2 filled by two writes of one byte, then a third write
C3_Witness ==
    /\ C3_Case /\ hist.last.len > 0 /\ C3_Outcome
    /\ maxSize = 2 /\ backupCount = 2 /\ hist.last.id = 3

\* The case of C4: an open size-based writer whose active file is empty has
\* just returned from a Write longer than maxSize.
C4_Case ==
    /\ kind = "size"
    /\ hist.last.op = "Write" /\ hist.last.open0
    /\ hist.last.size0 = 0 /\ hist.last.len > maxSize

\* What C4 says of that state: the Write rotated first, which left an empty
\* filename.1, and then put its whole payload in the active file.
C4_Outcome ==
    /\ hist.last.rolled /\ hist.rotated[1] = <<>>
    /\ IsExist(fs, Numbered(1)) /\ Content(fs, Numbered(1)) = <<>>
    /\ hist.last.err = ErrNil /\ hist.last.n = hist.last.len
    /\ Content(fs, Target) = Payload(hist.last.id, hist.last.len)

\* C4: a Write longer than maxSize on an empty active file rotates first,
\* producing an empty filename.1, and then appends its whole payload.
C4_OversizedWriteAnyCount == C4_Case => C4_Outcome

\* The same where doRollover has renames to do, backupCount > 0.
C4_OversizedWrite == (C4_Case /\ backupCount > 0) => C4_Outcome

\* reached: a payload of two bytes with maxSize = 1
C4_Witness ==
    /\ C4_Case /\ backupCount > 0 /\ C4_Outcome
    /\ maxSize = 1 /\ hist.last.len = 2

\* C11: a rotation with backupCount > 0 moves every backup filename.i that
\* exists, for i in 1..backupCount-1, to filename.(i+1), whether or not
\* filename.(i+1) existed.
C11_LadderShifts ==
    [][\A g \in Goroutines :
          (pc[g] = "rw_roll" /\ pc'[g] = "rw_open" /\ backupCount > 0)
          => \A i \in 1..(backupCount - 1) :
                IsExist(fs, Numbered(i))
                => /\ IsExist(fs', Numbered(i + 1))
                   /\ Content(fs', Numbered(i + 1)) = Content(fs, Numbered(i))]_vars

\* a Write of the size-based writer has come back from doRollover with no
\* error and has not written its data yet
R_Rotated(g) == kind = "size" /\ pc[g] = "rw_write" /\ hist.cur[g].rolled

\* C12: after a size rotation that succeeded, whatever backupCount is,
\* filename.1 holds what the active file held, the active file is empty and
\* nbytes is 0.
C12_RotationRetires ==
    \A g \in Goroutines :
       R_Rotated(g)
       => /\ IsExist(fs, Numbered(1))
          /\ Content(fs, Numbered(1)) = hist.rotated[1]
          /\ IsExist(fs, Target) /\ Content(fs, Target) = <<>>
          /\ nbytes = 0

\* C13: a Write of the size-based writer rotates exactly when
\* nbytes + len(data) > maxSize, tested before it writes; it rotates at most
\* once; its bytes go to one file; and so the active file is never longer
\* than maxSize unless it holds a single write longer than maxSize.
C13_RotatesWhenOver ==
    [][\A g \in Goroutines :
          kind = "size"
          => /\ (pc[g] = "rw_roll" /\ pc'[g] # "rw_roll")
                => /\ hist'.stream = hist.stream
                   /\ (Len(hist'.rotated) = Len(hist.rotated) + 1)
                         = (nbytes + Len(arg[g]) > maxSize)
             /\ (Len(hist'.rotated) # Len(hist.rotated))
                => \E h \in Goroutines : pc[h] = "rw_roll" /\ ~hist.cur[h].rolled
             /\ (pc[g] = "rw_write" /\ pc'[g] = "idle" /\ hist'.last.err = ErrNil)
                => /\ Content(fs', Target) = Content(fs, Target) \o arg[g]
                   /\ \A p \in DOMAIN fs.dir \ {Target} :
                         IsExist(fs', p) /\ Content(fs', p) = Content(fs, p)
                   /\ \/ Len(Content(fs', Target)) <= maxSize
                      \/ /\ Content(fs', Target) = arg[g]
                         /\ Len(arg[g]) > maxSize]_vars

-----------------------------------------------------------------------------
(* Properties of both writers *)

\* C5: once the exported Close has returned nil the writer holds no open
\* file again, and every Write that begins afterwards returns
\* ErrFileNotOpen, writes no byte and does not rotate, whatever the clock.
C5_ClosedIsTerminal ==
    /\ hist.closedOK => (w = Nil \/ w.closed)
    /\ (hist.last.op = "Write" /\ hist.last.after)
       => /\ hist.last.err = ErrFileNotOpen
          /\ hist.last.n = 0
          /\ ~hist.last.rolled

\* reached: a Write on a closed TimedRotatingFile after its deadline passed
C5_Witness ==
    /\ kind = "timed" /\ hist.closedOK /\ now >= rotatorAt
    /\ hist.last.op = "Write" /\ hist.last.after
    /\ hist.last.err = ErrFileNotOpen

\* the positions inside Write at which the open file is used
UsesFile(g) == pc[g] \in {"rw_write", "tw_write"}

\* C6: a goroutine inside a method of the writer holds the mutex, and a
\* Write that is about to write finds an open file in w.
C6_LockProtectsState ==
    \A g \in Goroutines :
        /\ pc[g] # "idle" => lock = g
        /\ UsesFile(g) => (w # Nil /\ ~w.closed)

\* the number of places where byte b is on disk
Occurrences(b) ==
    Cardinality({pi \in UNION {{<<p, i>> : i \in 1..Len(Content(fs, p))} : p \in DOMAIN fs.dir} :
                    Content(fs, pi[1])[pi[2]] = b})

\* the bytes of write n lie one after the other in one file
InOnePiece(n) ==
    LET len == Cardinality({b \in {hist.stream[i] : i \in 1..Len(hist.stream)} : b[1] = n})
    IN \E p \in DOMAIN fs.dir :
          \E o \in 0..(Len(Content(fs, p)) - len) :
              \A j \in 1..len : Content(fs, p)[o + j] = <<n, j>>

\* C7: when several goroutines have written and rotations happened on the
\* way, the files hold as many bytes as were written, and the bytes of each
\* write are on disk once, one after the other in one file.  Stated, as C2,
\* for an empty path and the runs with at most backupCount rotations.
C7_ConcurrentWritesKept ==
    (kind = "size" /\ hist.pre = <<>> /\ Cardinality(hist.writers) >= 2
        /\ Len(hist.rotated) >= 1 /\ Len(hist.rotated) <= backupCount)
    => /\ Len(OnDisk) = Len(hist.stream)
       /\ \A i \in 1..Len(hist.stream) : Occurrences(hist.stream[i]) = 1
       /\ \A n \in 1..hist.nwrites : InOnePiece(n)

\* local midnight of the day t falls in
LocalMidnight(t) == t - (t % day)

\* a step in which g runs reComputeRollover, in doRollover or in SetInterval
Recomputes(g) ==
    \/ pc[g] = "tr_recompute" /\ pc'[g] = "tr_open"
    \/ pc[g] = "ti_2" /\ pc'[g] = "idle"

\* no goroutine but g is inside a method
Alone(g) == \A h \in Goroutines \ {g} : pc[h] = "idle"

C9_CloseTwice ==
    (kind = "size" /\ hist.last.op = "Close" /\ ~hist.last.open0)
    => (hist.last.err = ErrNil /\ w = Nil /\ ~crashed)

\* reached: a Close that began after an earlier Close had returned
C9_Witness ==
    /\ kind = "size" /\ hist.last.op = "Close" /\ ~hist.last.open0
    /\ hist.last.after /\ hist.last.err = ErrNil

\* C10: a Close of a writer whose file is absent returns ErrFileNotOpen.
\* Stated for a Close that begins after an earlier Close has returned nil.
C10_CloseReturnsNotOpen ==
    (hist.last.op = "Close" /\ hist.last.after /\ ~hist.last.open0)
    => hist.last.err = ErrFileNotOpen

\* a Write of the timed writer has come back from doRollover with no error
\* and has not written its data yet
T_Rotated(g) == kind = "timed" /\ pc[g] = "tw_write" /\ hist.cur[g].rolled

\* the name of the backup of the rotation g is in: filename.<date>, the date
\* being that of rotatorAt, as Write found it, less interval
T_Destination(g) == Dated(T_Format(hist.cur[g].at0 - interval))

\* C14: when a timed rotation succeeds, the active file it found is
\* filename.<date of rotatorAt - interval>, with the content it had,
\* whatever was at that name before, and the active file is new and empty;
\* a rotation that finds no active file skips the rename and goes on.
C14_RetiresUnderDate ==
    [][\A g \in Goroutines :
          kind = "timed"
          => /\ (pc[g] = "tr_open" /\ pc'[g] = "tw_write")
                => /\ hist.cur[g].had
                      => /\ IsExist(fs', T_Destination(g))
                         /\ Content(fs', T_Destination(g)) = hist.rotated[1]
                   /\ w' # Nil /\ ~w'.closed
                   /\ IsExist(fs', Target) /\ fs'.dir[Target] = w'.ino
                   /\ w'.ino \notin DOMAIN fs.data
                   /\ Content(fs', Target) = <<>>
             /\ (pc[g] = "tr_retire" /\ pc'[g] # "tr_retire" /\ ~IsFile(fs, Target))
                => /\ pc'[g] \in {"tr_list", "tr_recompute"}
                   /\ \A p \in DOMAIN fs'.dir :
                         IsExist(fs, p) /\ Content(fs', p) = Content(fs, p)]_vars

\* reached: a rotation has put the active file, which was not empty, in the
\* place of the backup of the same date that an earlier run had left
C14_Witness ==
    \E g \in Goroutines :
       /\ T_Rotated(g) /\ hist.cur[g].had
       /\ IsExist(fs, DatedExt(-1)) /\ T_Destination(g) = Dated(0)
       /\ hist.rotated[1] # <<>> /\ hist.rotated[1] # OldContent
       /\ Content(fs, Dated(0)) = hist.rotated[1]

\* reached: a rotation that found no active file has succeeded
C14_WitnessAbsent ==
    \E g \in Goroutines : T_Rotated(g) /\ ~hist.cur[g].had

\* the n greatest of the names in B, all of them when B has no more than n
T_newest(B, n) ==
    {p \in B : Cardinality({q \in B : T_nameLess(p, q)}) < n}

\* C15: a timed rotation with backupCount = N > 0 leaves the N greatest
\* backup names of the directory, the backup it has just made among them,
\* and removes no file of another name; with backupCount = 0 it removes no
\* backup.  N is backupCount as doRollover reads it after the rename.
C15_KeepsNewest ==
    [][\A g \in Goroutines :
          kind = "timed"
          => /\ (pc[g] \in {"tr_list", "tr_prune"} /\ pc'[g] = "tr_recompute")
                => /\ T_backups(fs') = T_newest(T_backups(fs), hist.cur[g].bc)
                   /\ Cardinality(T_backups(fs')) <= hist.cur[g].bc
                   /\ hist.cur[g].had => T_Destination(g) \in T_backups(fs')
                   /\ \A p \in DOMAIN fs.dir :
                         ~T_isBackup(p) => IsExist(fs', p)
             /\ (pc[g] = "tr_retire" /\ pc'[g] # "tr_retire" /\ backupCount = 0)
                => /\ pc'[g] \in {"tr_recompute", "idle"}
                   /\ T_backups(fs) \ {T_Destination(g)} \subseteq T_backups(fs')]_vars

\* What C16 says of a step of g: Write goes into doRollover exactly when
\* now >= rotatorAt, from its test of the deadline and from nowhere else;
\* reComputeRollover in doRollover leaves rotatorAt after now (asked of the
\* steps for which inScope holds); the active file is retired, and the
\* names in the directory change, only in the doRollover of a Write, which
\* WriteString calls too.
T_RotatesInWrite(g, inScope) ==
    /\ (pc[g] = "tw_should" /\ pc'[g] # "tw_should")
       => /\ pc'[g] \in {"tr_close1", "tw_write"}
          /\ (pc'[g] = "tr_close1") = (now >= rotatorAt)
    /\ (pc'[g] = "tr_close1") => pc[g] \in {"tw_should", "tr_close1"}
    /\ (pc'[g] = "tw_should") => pc[g] \in {"tw_check", "tw_should"}
    /\ (pc[g] = "tr_recompute" /\ pc'[g] = "tr_open" /\ inScope)
       => rotatorAt' > now
    /\ (Len(hist'.rotated) # Len(hist.rotated) \/ DOMAIN fs'.dir # DOMAIN fs.dir)
       => \E h \in Goroutines :
             /\ hist.cur[h].op \in {"Write", "WriteString"} /\ hist.cur[h].rolled
             /\ pc[h] \in {"tr_retire", "tr_prune", "tr_open"} /\ pc'[h] # pc[h]

RotationFailed ==
    hist.last.op = "Write" /\ hist.last.rolled /\ hist.last.fault # NoFault

\* C17: a Write whose rotation had a step fail returns an error and has
\* appended nothing, and a Write that finds the writer without an open file
\* returns ErrFileNotOpen; no Write panics.
C17_FailedRotationAborts ==
    /\ ~crashed
    /\ RotationFailed => (hist.last.err # ErrNil /\ hist.last.n = 0)
    /\ (hist.last.op = "Write" /\ ~hist.last.open0)
       => (hist.last.err = ErrFileNotOpen /\ hist.last.n = 0)

\* C18: a Write that rotated and returns no error had no file-system call of
\* its rotation fail.
C18_NoFailureSwallowed ==
    (hist.last.op = "Write" /\ hist.last.rolled /\ hist.last.err = ErrNil)
    => hist.last.fault = NoFault

\* C19: when a size-based writer is open and no call is under way, nbytes
\* is the size of the active file.
C19_CounterIsFileSize ==
    (/\ kind = "size" /\ ~crashed
     /\ ~R_notOpen(w)
     /\ \A g \in Goroutines : pc[g] = "idle")
    => nbytes = Len(fs.data[w.ino])

\* RotatingFile.Write(data) as one function of the state S = [fs, w, nbytes,
\* err] on a sound disk; the result has n as well
R_Write(S, data, max, bc) ==
    IF R_notOpen(S.w)
    THEN [fs |-> S.fs, w |-> S.w, nbytes |-> S.nbytes, err |-> ErrFileNotOpen, n |-> 0]
    ELSE LET D  == R_doRollover(S, bc, NoFault)
             S1 == IF R_shouldRollover(S.nbytes, Len(data), max)
                   THEN R_open([D EXCEPT !.fs = Reclaim(D.fs, D.w)], NoFault)
                   ELSE S
             r  == WC_Write(S1.fs, S1.w, data)
         IN [fs |-> r.fs, w |-> S1.w, nbytes |-> S1.nbytes + r.n, err |-> r.err,
             n |-> r.n]

\* C20: WriteString does what Write does with the same bytes.  On the
\* size-based writer it holds the mutex while it writes and, run with no
\* other call under way, returns what Write would return and leaves the
\* state Write would leave; on the timed writer it takes the mutex and goes
\* on to the test of Write.
C20_WriteStringIsWrite ==
    [][\A g \in Goroutines :
          /\ (kind = "size" /\ pc[g] = "rs_write") => lock = g
          /\ (kind = "size" /\ pc[g] = "rs_write" /\ pc'[g] = "idle" /\ Alone(g))
             => LET r == R_Write(R_state, arg[g], maxSize, backupCount)
                IN /\ ~crashed'
                   /\ hist'.last.err = r.err /\ hist'.last.n = r.n
                   /\ fs' = r.fs /\ w' = r.w /\ nbytes' = r.nbytes
          /\ (kind = "timed" /\ hist.cur[g].op = "none"
                             /\ hist'.cur[g].op = "WriteString")
             => lock' = g /\ pc'[g] = "tw_check"]_vars

====
